---- MODULE Spec2Model ----
(***************************************************************************)
(* Model of the date-puzzle solver: the iterative backtracking search of   *)
(* src/src/backtrack.rs and the board encoder / decoder of                 *)
(* src/src/entity.rs.                                                      *)
(*                                                                         *)
(* A u64 is modelled as the set of its set bit positions, a subset of      *)
(* 0..WordBits-1: `a & b' is a \cap b, `a | b' is a \cup b, 0 is {} and    *)
(* the shift `overflowing_shl(1).0' drops the bit that leaves the word.    *)
(* Indices are 0-based as in the source; At0 reads a sequence at a         *)
(* 0-based index.                                                          *)
(***************************************************************************)
EXTENDS Integers, Sequences, FiniteSets, TLC

VARIABLES
    \* ---- backtrack: arguments
    initial_board, placements, placement_indices,
    \* ---- backtrack: locals
    selected_placements, board_states, i, board,
    selected_placement, bound, placement,
    \* ---- backtrack: control position and returned value
    pc, result,
    \* ---- EncodingBoard: constructor argument and fields
    aabbs, encoding,
    \* ---- EncodingBoard::encode: argument and returned value
    enc_points, encoded,
    \* ---- DecodingBoard: fields
    decoding, rows,
    \* ---- board code: control position and panic message
    bpc, panic_msg,
    \* ---- Tile: constructor argument, field, offset_points' result
    tile_arg, points, offsets,
    \* ---- main's orientation loop: counters and the orientations used
    outer, inner, visited,
    \* ---- tile code: control position
    tpc,
    \* ---- rev_i32_order: arguments, returned keys, control position
    rev_a, rev_b, key_a, key_b, rpc,
    \* ---- main: the piece being decoded, control position
    next_id, mpc

searchVars == <<initial_board, placements, placement_indices,
                selected_placements, board_states, i, board,
                selected_placement, bound, placement, pc, result>>

boardVars == <<aabbs, encoding, enc_points, encoded, decoding, rows,
               bpc, panic_msg>>

tileVars == <<tile_arg, points, offsets, outer, inner, visited, tpc>>

sortVars == <<rev_a, rev_b, key_a, key_b, rpc>>

mainVars == <<next_id, mpc>>

sideVars == <<tileVars, sortVars, mainVars>>

vars == <<searchVars, boardVars, sideVars>>

----------------------------------------------------------------------------
\* Bounds of the explored inputs
NBits == 2
MaxPlacements == 3
MaxPieces == 2
MaxX == 1
MaxPts == 3
DecBits == 3
RevSpan == 2
MaxTilePts == 2

\* Width of the machine word holding a board (u64)
WordBits == 64

----------------------------------------------------------------------------
\* 0-based read of a sequence
At0(s, idx) == s[idx + 1]

\* 0-based write of a sequence
Set0(s, idx, v) == [s EXCEPT ![idx + 1] = v]

\* is idx a valid 0-based index of s (Rust bounds check)
InBounds(s, idx) == idx >= 0 /\ idx < Len(s)

----------------------------------------------------------------------------
\* Inputs of backtrack

\* candidate masks (0 included: the search treats it specially)
Masks == SUBSET (0 .. NBits - 1)

\* no pre-occupied cell, or one (the search treats all bits alike)
InitialBoards == {{}, {0}}

PlacementLists == UNION {[1 .. n -> Masks] : n \in 0 .. MaxPlacements}

NonDecreasing(s) == \A k \in 1 .. Len(s) - 1 : s[k] <= s[k + 1]

\* boundary arrays as main builds them (src/src/main.rs:142-153): they start
\* at 0, end at placements.len() and never decrease; an empty slice appears
\* when a tile has no candidate. The empty array is the one further input.
IndexLists(len) ==
    {<<>>} \cup
    {s \in UNION {[1 .. n -> 0 .. len] : n \in 1 .. MaxPieces + 1} :
        /\ s[1] = 0
        /\ s[Len(s)] = len
        /\ NonDecreasing(s)}

\* three pieces sharing four candidates, the middle piece or the first one
\* having two of them: the inputs on which a level is resumed and exhausted
\* while a deeper level exists
DeepPlacementLists == [1 .. 4 -> Masks]

DeepIndexLists == {<<0, 1, 3, 4>>, <<0, 2, 3, 4>>}

----------------------------------------------------------------------------
\* Option<T>
None == [tag |-> "None"]

Some(v) == [tag |-> "Some", val |-> v]

\* Square (src/src/entity.rs:150-154)
Unknown == [tag |-> "Unknown"]

Uncovered == [tag |-> "Uncovered"]

Covered(id) == [tag |-> "Covered", tile_id |-> id]

\* the empty HashMap
EmptyMap == <<>>

\* no board has been built
BoardIdle ==
    /\ aabbs = <<>>
    /\ encoding = EmptyMap
    /\ enc_points = <<>>
    /\ encoded = None
    /\ decoding = EmptyMap
    /\ rows = <<>>
    /\ bpc = "idle"
    /\ panic_msg = ""

\* no tile has been built
TileIdle ==
    /\ tile_arg = <<>>
    /\ points = <<>>
    /\ offsets = <<>>
    /\ outer = 0
    /\ inner = 0
    /\ visited = <<>>
    /\ tpc = "idle"

\* no sort key has been asked for
SortIdle ==
    /\ rev_a = 0
    /\ rev_b = 0
    /\ key_a = 0
    /\ key_b = 0
    /\ rpc = "idle"

\* main is not running
MainIdle ==
    /\ next_id = 0
    /\ mpc = "idle"

SideIdle == TileIdle /\ SortIdle /\ MainIdle

\* no search has been started
SearchIdle ==
    /\ initial_board = {}
    /\ placements = <<>>
    /\ placement_indices = <<>>
    /\ selected_placements = <<>>
    /\ board_states = <<>>
    /\ i = 0
    /\ board = {}
    /\ selected_placement = 0
    /\ bound = 0
    /\ placement = {}
    /\ pc = "idle"
    /\ result = <<>>

----------------------------------------------------------------------------
\* backtrack (src/src/backtrack.rs)

InitSearch ==
    /\ initial_board \in InitialBoards
    /\ \/ /\ placements \in PlacementLists
          /\ placement_indices \in IndexLists(Len(placements))
       \/ /\ placements \in DeepPlacementLists
          /\ placement_indices \in DeepIndexLists
    /\ selected_placements = <<>>
    /\ board_states = <<>>
    /\ i = 0
    /\ board = {}
    /\ selected_placement = 0
    /\ bound = 0
    /\ placement = {}
    /\ pc = "start"
    /\ result = <<>>
    /\ BoardIdle
    /\ SideIdle

\* lines 6-9: `placement_indices.len() - 1' underflows on an empty array
\* (overflow panic, or in a release build a capacity-overflow panic of vec!)
StartPanic ==
    /\ pc = "start"
    /\ Len(placement_indices) = 0
    /\ pc' = "panic"
    /\ UNCHANGED <<initial_board, placements, placement_indices,
                   selected_placements, board_states, i, board,
                   selected_placement, bound, placement, result>>
    /\ UNCHANGED boardVars
    /\ UNCHANGED sideVars

\* lines 6-9
Start ==
    /\ pc = "start"
    /\ Len(placement_indices) > 0
    /\ selected_placements' = placement_indices
    /\ board_states' = [k \in 1 .. Len(placement_indices) - 1 |-> initial_board]
    /\ i' = 0
    /\ board' = initial_board
    /\ pc' = "loop"
    /\ UNCHANGED <<initial_board, placements, placement_indices,
                   selected_placement, bound, placement, result>>
    /\ UNCHANGED boardVars
    /\ UNCHANGED sideVars

\* lines 12-13, an index out of bounds
LoopHeadPanic ==
    /\ pc = "loop"
    /\ ~(InBounds(selected_placements, i) /\ InBounds(selected_placements, i + 1))
    /\ pc' = "panic"
    /\ UNCHANGED <<initial_board, placements, placement_indices,
                   selected_placements, board_states, i, board,
                   selected_placement, bound, placement, result>>
    /\ UNCHANGED boardVars
    /\ UNCHANGED sideVars

\* lines 12-13
LoopHead ==
    /\ pc = "loop"
    /\ InBounds(selected_placements, i)
    /\ InBounds(selected_placements, i + 1)
    /\ selected_placement' = At0(selected_placements, i)
    /\ bound' = At0(selected_placements, i + 1)
    /\ pc' = "scan"
    /\ UNCHANGED <<initial_board, placements, placement_indices,
                   selected_placements, board_states, i, board,
                   placement, result>>
    /\ UNCHANGED boardVars
    /\ UNCHANGED sideVars

\* line 17, placements[selected_placement] out of bounds
ScanPanic ==
    /\ pc = "scan"
    /\ ~InBounds(placements, selected_placement)
    /\ pc' = "panic"
    /\ UNCHANGED <<initial_board, placements, placement_indices,
                   selected_placements, board_states, i, board,
                   selected_placement, bound, placement, result>>
    /\ UNCHANGED boardVars
    /\ UNCHANGED sideVars

\* a test of the candidate alone, without the board
DisjointIgnoringBoard(mask, brd) == mask # {}

\* a test against the initial board in place of the accumulated one
DisjointFromInitial(mask, brd) == (mask \cap initial_board) = {}

\* line 18: the test `placement & board == 0'
Disjoint(mask, brd) == (mask \cap brd) = {}

\* lines 17-20: the candidate is disjoint from the board
ScanFound ==
    /\ pc = "scan"
    /\ InBounds(placements, selected_placement)
    /\ Disjoint(At0(placements, selected_placement), board)
    /\ placement' = At0(placements, selected_placement)
    /\ pc' = "check"
    /\ UNCHANGED <<initial_board, placements, placement_indices,
                   selected_placements, board_states, i, board,
                   selected_placement, bound, result>>
    /\ UNCHANGED boardVars
    /\ UNCHANGED sideVars

\* lines 22-25: the candidate overlaps, next index is not the bound
ScanNext ==
    /\ pc = "scan"
    /\ InBounds(placements, selected_placement)
    /\ ~Disjoint(At0(placements, selected_placement), board)
    /\ selected_placement + 1 # bound
    /\ selected_placement' = selected_placement + 1
    /\ UNCHANGED <<initial_board, placements, placement_indices,
                   selected_placements, board_states, i, board,
                   bound, placement, pc, result>>
    /\ UNCHANGED boardVars
    /\ UNCHANGED sideVars

\* lines 22-25: the candidate overlaps, next index is the bound: break 0
ScanEnd ==
    /\ pc = "scan"
    /\ InBounds(placements, selected_placement)
    /\ ~Disjoint(At0(placements, selected_placement), board)
    /\ selected_placement + 1 = bound
    /\ selected_placement' = selected_placement + 1
    /\ placement' = {}
    /\ pc' = "check"
    /\ UNCHANGED <<initial_board, placements, placement_indices,
                   selected_placements, board_states, i, board,
                   bound, result>>
    /\ UNCHANGED boardVars
    /\ UNCHANGED sideVars

\* the pointer of an exhausted level put at the end of its slice
SliceStartNext(level) == At0(placement_indices, level + 1)

\* lines 34 and 50: `placement_indices[i]', the first option of the level
SliceStart(level) == At0(placement_indices, level)

\* lines 29-34: out of moves at this level
Exhausted ==
    /\ pc = "check"
    /\ placement = {}
    /\ selected_placements' = Set0(selected_placements, i, SliceStart(i))
    /\ pc' = "walk"
    /\ UNCHANGED <<initial_board, placements, placement_indices,
                   board_states, i, board,
                   selected_placement, bound, placement, result>>
    /\ UNCHANGED boardVars
    /\ UNCHANGED sideVars

\* lines 37-40
ReturnNone ==
    /\ pc = "walk"
    /\ i = 0
    /\ pc' = "none"
    /\ UNCHANGED <<initial_board, placements, placement_indices,
                   selected_placements, board_states, i, board,
                   selected_placement, bound, placement, result>>
    /\ UNCHANGED boardVars
    /\ UNCHANGED sideVars

\* lines 42-51: the previous piece has tried all its candidates
WalkReset ==
    /\ pc = "walk"
    /\ i # 0
    /\ At0(selected_placements, i - 1) = At0(placement_indices, i)
    /\ i' = i - 1
    /\ selected_placements' =
           Set0(selected_placements, i - 1, SliceStart(i - 1))
    /\ UNCHANGED <<initial_board, placements, placement_indices,
                   board_states, board,
                   selected_placement, bound, placement, pc, result>>
    /\ UNCHANGED boardVars
    /\ UNCHANGED sideVars

\* the board left as the abandoned branch built it
RestoredBoardStale(states, level) == board

\* line 54: the board restored on backtrack
RestoredBoard(states, level) == At0(states, level)

\* lines 42-47, 53-56: the previous piece has candidates left
WalkResume ==
    /\ pc = "walk"
    /\ i # 0
    /\ At0(selected_placements, i - 1) # At0(placement_indices, i)
    /\ i' = i - 1
    /\ board' = RestoredBoard(board_states, i - 1)
    /\ pc' = "loop"
    /\ UNCHANGED <<initial_board, placements, placement_indices,
                   selected_placements, board_states,
                   selected_placement, bound, placement, result>>
    /\ UNCHANGED boardVars
    /\ UNCHANGED sideVars

\* the resume pointer left on the committed candidate
ResumePointerStuck(sel) == sel

\* the resume pointer moved two candidates on
ResumePointerSkip(sel) == sel + 2

\* line 63: the resume pointer stored on a commit
ResumePointer(sel) == sel + 1

\* the board overwritten by the placement
AccumulateAssign(brd, mask) == mask

\* line 77: `board |= placement'
Accumulate(brd, mask) == brd \cup mask

\* lines 63-77: commit the candidate and descend
Descend ==
    /\ pc = "check"
    /\ placement # {}
    /\ i + 1 # Len(placement_indices) - 1
    /\ selected_placements' =
           Set0(selected_placements, i, ResumePointer(selected_placement))
    /\ board_states' = Set0(board_states, i, board)
    /\ i' = i + 1
    /\ board' = Accumulate(board, placement)
    /\ pc' = "loop"
    /\ UNCHANGED <<initial_board, placements, placement_indices,
                   selected_placement, bound, placement, result>>
    /\ UNCHANGED boardVars
    /\ UNCHANGED sideVars

\* the resume pointer returned as it is
ResultEntryNoShift(index) == index

\* line 85: the entry returned for a piece's resume pointer
ResultEntry(index) == index - 1

\* lines 80-87
ResultOf(sel) == [k \in 1 .. Len(sel) - 1 |-> ResultEntry(sel[k])]

\* lines 63-74, 80-87: commit the last piece's candidate and return Some
ReturnSome ==
    /\ pc = "check"
    /\ placement # {}
    /\ i + 1 = Len(placement_indices) - 1
    /\ selected_placements' =
           Set0(selected_placements, i, ResumePointer(selected_placement))
    /\ board_states' = Set0(board_states, i, board)
    /\ i' = i + 1
    /\ result' = ResultOf(selected_placements')
    /\ pc' = "some"
    /\ UNCHANGED <<initial_board, placements, placement_indices, board,
                   selected_placement, bound, placement>>
    /\ UNCHANGED boardVars
    /\ UNCHANGED sideVars

NextSearch ==
    \/ StartPanic
    \/ Start
    \/ LoopHeadPanic
    \/ LoopHead
    \/ ScanPanic
    \/ ScanFound
    \/ ScanNext
    \/ ScanEnd
    \/ Exhausted
    \/ ReturnNone
    \/ WalkReset
    \/ WalkResume
    \/ Descend
    \/ ReturnSome

SpecSearch == InitSearch /\ [][NextSearch]_vars

\* the search is one sequential call: a step that can be taken is taken
FairSpecSearch == SpecSearch /\ WF_vars(NextSearch)

----------------------------------------------------------------------------
\* Points and AABBs (src/src/entity.rs)

\* the ends of the i32 range of a coordinate
I32Max == 2147483647

I32Min == -I32Max - 1

Point(px, py) == [x |-> px, y |-> py]

AABB(pmin, pmax) == [min |-> pmin, max |-> pmax]

\* AABB::points, lines 94-99: x is the outer range, y the inner one
AABBPoints(aabb) ==
    LET w == aabb.max.x - aabb.min.x + 1
        h == aabb.max.y - aabb.min.y + 1
    IN  [n \in 1 .. w * h |->
            Point(aabb.min.x + ((n - 1) \div h), aabb.min.y + ((n - 1) % h))]

\* EncodingBoard::points, lines 134-136 (and the loops of lines 114-115)
RECURSIVE BoardPoints(_)
BoardPoints(list) ==
    IF list = <<>> THEN <<>>
    ELSE AABBPoints(Head(list)) \o BoardPoints(Tail(list))

\* a rotation in place of the shift: the top bit returns as bit 0
ShlRotate(w) == {(b + 1) % WordBits : b \in w}

\* a shift by two places
ShlTwo(w) == {b + 2 : b \in {c \in w : c + 2 < WordBits}}

\* line 127 and line 177: `x.overflowing_shl(1).0' on a u64
Shl1(w) == {b + 1 : b \in {c \in w : c + 1 < WordBits}}

\* line 122: entry.insert(enc), and line 275: point_map.insert(..)
Insert(map, key, val) == (key :> val) @@ map

\* EncodingBoard::new, lines 116-127: the loop body for one point; st holds
\* `enc', `encoding' and the panic message once the loop is left by a panic
NewStep(st, point) ==
    IF st.msg # "" THEN st
    ELSE IF st.enc = {} THEN
        [st EXCEPT !.msg = "More than 64 tiles in Board"]
    ELSE IF point \in DOMAIN st.encoding THEN
        [st EXCEPT !.msg = "Overlapping AABBs in Board"]
    ELSE [msg |-> "", enc |-> Shl1(st.enc),
          encoding |-> Insert(st.encoding, point, st.enc)]

\* EncodingBoard::new, lines 114-129: the loop over the points lo..hi from
\* the state st: the first half of the range, then (unless that panicked)
\* the second half
RECURSIVE NewLoop(_, _, _, _)
NewLoop(pts, lo, hi, st) ==
    IF lo > hi THEN st
    ELSE IF lo = hi THEN NewStep(st, pts[lo])
    ELSE LET firstHalf == NewLoop(pts, lo, (lo + hi) \div 2, st)
         IN  IF firstHalf.msg # "" THEN firstHalf
             ELSE NewLoop(pts, ((lo + hi) \div 2) + 1, hi, firstHalf)

\* EncodingBoard::new, lines 110-132
EncodingBoardNew(list) ==
    NewLoop(BoardPoints(list), 1, Len(BoardPoints(list)),
            [msg |-> "", enc |-> {0}, encoding |-> EmptyMap])

\* line 140: self.encoding.get(&point).copied()
Lookup(map, p) == IF p \in DOMAIN map THEN Some(map[p]) ELSE None

\* a reducer that keeps the bits found so far when a point is missing
ReducerLenient(a, b) ==
    IF a.tag = "Some" /\ b.tag = "Some" THEN Some(a.val \cup b.val)
    ELSE IF a.tag = "Some" THEN a ELSE b

\* lines 141-144: the closure given to reduce
Reducer(a, b) ==
    IF a.tag = "Some" /\ b.tag = "Some" THEN Some(a.val \cup b.val) ELSE None

\* Iterator::reduce from the n-th element on
RECURSIVE ReduceFrom(_, _, _, _)
ReduceFrom(map, pts, n, acc) ==
    IF n > Len(pts) THEN acc
    ELSE ReduceFrom(map, pts, n + 1, Reducer(acc, Lookup(map, pts[n])))

\* EncodingBoard::encode, lines 138-146: reduce gives None on an empty
\* iterator, flatten merges the two Option layers
Encode(map, pts) ==
    IF Len(pts) = 0 THEN None
    ELSE ReduceFrom(map, pts, 2, Lookup(map, pts[1]))

----------------------------------------------------------------------------
\* DecodingBoard (src/src/entity.rs)

\* line 237: `1 - x' leaves the i32 range for one argument, i32::MIN + 1
RevOverflows(x) == x = I32Min + 1

\* lines 233-239. Where `1 - x' overflows, the value is the one a build
\* without overflow checks computes: 2^31 wrapped to i32::MIN (a build with
\* overflow checks panics there, see FromPanic and RevPanic)
rev_i32_order(x) ==
    IF x = I32Min THEN I32Max
    ELSE IF RevOverflows(x) THEN I32Min
    ELSE 1 - x

\* lines 242-255: the comparator says lhs < rhs
Less(lhs, rhs) ==
    LET y_lhs == rev_i32_order(lhs.y)
        y_rhs == rev_i32_order(rhs.y)
    IN  IF y_lhs = y_rhs THEN lhs.x < rhs.x ELSE y_lhs < y_rhs

\* lines 241-255: sort_by is a stable sort, so a point is placed after the
\* points that compare less and after the earlier points that compare equal
SortedPoints(pts) ==
    [r \in 1 .. Len(pts) |->
        pts[CHOOSE k \in 1 .. Len(pts) :
                Cardinality({j \in 1 .. Len(pts) :
                    \/ Less(pts[j], pts[k])
                    \/ (~Less(pts[k], pts[j]) /\ j < k)}) + 1 = r]]

\* lines 262-277: the loop body for one point; st holds prev_y, rows, row
\* and point_map
GroupStep(st, point) ==
    IF st.prev_y.tag = "Some" /\ point.y # st.prev_y.val THEN
        [prev_y |-> Some(point.y),
         rows |-> Append(st.rows, st.row),
         row |-> <<Unknown>>,
         point_map |-> Insert(st.point_map, point, <<Len(st.rows) + 1, 0>>)]
    ELSE
        [prev_y |-> Some(point.y),
         rows |-> st.rows,
         row |-> Append(st.row, Unknown),
         point_map |->
             Insert(st.point_map, point, <<Len(st.rows), Len(st.row)>>)]

\* lines 262-277: the loop over the sorted points lo..hi from the state st,
\* the first half of the range (evaluated first) and then the second
RECURSIVE GroupLoop(_, _, _, _)
GroupLoop(pts, lo, hi, st) ==
    IF lo > hi THEN st
    ELSE IF lo = hi THEN GroupStep(st, pts[lo])
    ELSE LET firstHalf == GroupLoop(pts, lo, (lo + hi) \div 2, st)
         IN  IF firstHalf.prev_y.tag = "Some"
             THEN GroupLoop(pts, ((lo + hi) \div 2) + 1, hi, firstHalf)
             ELSE firstHalf

\* lines 257-278: the loop, then rows.push(row)
Grouped(pts) ==
    LET st == GroupLoop(pts, 1, Len(pts),
                        [prev_y |-> None, rows |-> <<>>, row |-> <<>>,
                         point_map |-> EmptyMap])
    IN  [rows |-> Append(st.rows, st.row), point_map |-> st.point_map]

\* lines 281-285: the encoding map turned round, each mask with the grid
\* cell of its point
DecodingOf(map, point_map) ==
    [m \in {map[p] : p \in DOMAIN map} |->
        point_map[CHOOSE p \in DOMAIN map : map[p] = m]]

\* impl From<EncodingBoard> for DecodingBoard, lines 231-289 (g is bound so
\* that the grouping is evaluated once)
DecodingBoardFrom(list, map) ==
    CHOOSE d \in {[decoding |-> DecodingOf(map, g.point_map), rows |-> g.rows] :
                     g \in {Grouped(SortedPoints(BoardPoints(list)))}} : TRUE

\* every cell painted Uncovered, whatever the label
PaintUncovered(tile_id) == Uncovered

\* lines 170-174: the state a cell is set to
Paint(tile_id) ==
    IF tile_id.tag = "Some" THEN Covered(tile_id.val) ELSE Uncovered

\* self.rows[col][row] = sq, with the 0-based indices of the decoding map
SetCell(rs, cell, sq) ==
    [rs EXCEPT ![cell[1] + 1] = [@ EXCEPT ![cell[2] + 1] = sq]]

\* the lowest bit of a non-zero word
LowestBit(w) == CHOOSE b \in w : \A c \in w : b <= c

\* DecodingBoard::decode, lines 164-178: `mask' walks the word from bit 0
\* up and the body runs where `enc & mask != 0', that is for the set bits of
\* enc in ascending order; rest holds the set bits not yet visited
RECURSIVE DecodeFrom(_, _, _, _)
DecodeFrom(dec, rs, rest, tile_id) ==
    IF rest = {} THEN [msg |-> "", rows |-> rs]
    ELSE IF {LowestBit(rest)} \in DOMAIN dec
    THEN DecodeFrom(dec,
                    SetCell(rs, dec[{LowestBit(rest)}], Paint(tile_id)),
                    rest \ {LowestBit(rest)}, tile_id)
    ELSE [msg |-> "Encoding not compatible with this board", rows |-> rs]

\* DecodingBoard::decode, lines 162-179
Decode(dec, rs, enc, tile_id) == DecodeFrom(dec, rs, enc, tile_id)

----------------------------------------------------------------------------
\* Inputs of the board code

\* the rectangles of a strip MaxX+1 wide and 2 high
SmallAABBs ==
    {AABB(Point(x0, y0), Point(x1, y1)) :
        <<x0, x1, y0, y1>> \in
            {t \in (0 .. MaxX) \X (0 .. MaxX) \X (-1 .. 0) \X (-1 .. 0) :
                t[1] <= t[2] /\ t[3] <= t[4]}}

\* a rectangle of WordBits cells and a one-cell rectangle beside it
BigAABBs ==
    {AABB(Point(0, 0), Point(7, 7)), AABB(Point(8, 0), Point(8, 0))}

AABBs == SmallAABBs \cup BigAABBs

\* the boards: at most two rectangles
AABBLists ==
    {<<>>} \cup {<<a>> : a \in AABBs} \cup {<<a, b>> : a, b \in AABBs}

\* one-cell rectangles at the lowest rows an i32 can name, and at row 0
ExtremeAABBs ==
    {AABB(Point(0, y), Point(0, y)) :
        y \in {I32Min, I32Min + 1, I32Min + 2, 0}}

\* the boards of one or two such rectangles
ExtremeLists ==
    {<<a>> : a \in ExtremeAABBs} \cup {<<a, b>> : a, b \in ExtremeAABBs}

\* the points asked of encode: the strip and one point left of it
EncodePoints ==
    {Point(x, y) : x \in -1 .. MaxX, y \in -1 .. 0} \ {Point(-1, -1)}

PointLists == UNION {[1 .. n -> EncodePoints] : n \in 0 .. MaxPts}

\* the masks asked of decode: the low bits, and the top bit of the word
DecodeMasks == SUBSET (0 .. DecBits - 1) \cup {{0, WordBits - 1}}

Labels == {None, Some(1)}

----------------------------------------------------------------------------
\* The board code as a state machine

InitBoard ==
    /\ SearchIdle
    /\ SideIdle
    /\ aabbs \in AABBLists
    /\ encoding = EmptyMap
    /\ enc_points = <<>>
    /\ encoded = None
    /\ decoding = EmptyMap
    /\ rows = <<>>
    /\ bpc = "new"
    /\ panic_msg = ""

\* EncodingBoard::new returns
NewBoard ==
    /\ bpc = "new"
    /\ \E b \in {EncodingBoardNew(aabbs)} :
           /\ b.msg = ""
           /\ encoding' = b.encoding
    /\ bpc' = "encoding"
    /\ UNCHANGED <<aabbs, enc_points, encoded, decoding, rows, panic_msg>>
    /\ UNCHANGED searchVars
    /\ UNCHANGED sideVars

\* EncodingBoard::new panics
NewBoardPanic ==
    /\ bpc = "new"
    /\ \E b \in {EncodingBoardNew(aabbs)} :
           /\ b.msg # ""
           /\ panic_msg' = b.msg
    /\ bpc' = "panic"
    /\ UNCHANGED <<aabbs, encoding, enc_points, encoded, decoding, rows>>
    /\ UNCHANGED searchVars
    /\ UNCHANGED sideVars

\* one call of EncodingBoard::encode (&self: the board is left as it is, so
\* one call per behaviour shows them all)
EncodeCall ==
    /\ bpc = "encoding"
    /\ \E pts \in PointLists :
           /\ enc_points' = pts
           /\ encoded' = Encode(encoding, pts)
    /\ bpc' = "encoded"
    /\ UNCHANGED <<aabbs, encoding, decoding, rows, panic_msg>>
    /\ UNCHANGED searchVars
    /\ UNCHANGED sideVars

\* DecodingBoard::from(board)
FromCall ==
    /\ bpc = "encoding"
    /\ \E d \in {DecodingBoardFrom(aabbs, encoding)} :
           /\ decoding' = d.decoding
           /\ rows' = d.rows
    /\ bpc' = "decoding"
    /\ UNCHANGED <<aabbs, encoding, enc_points, encoded, panic_msg>>
    /\ UNCHANGED searchVars
    /\ UNCHANGED sideVars

\* DecodingBoard::from(board) in a build with overflow checks: the sort of
\* two points or more compares every point, and the key of a point in row
\* i32::MIN + 1 overflows
FromPanic ==
    /\ bpc = "encoding"
    /\ Len(BoardPoints(aabbs)) >= 2
    /\ \E n \in 1 .. Len(BoardPoints(aabbs)) :
           RevOverflows(BoardPoints(aabbs)[n].y)
    /\ bpc' = "panic"
    /\ panic_msg' = "attempt to subtract with overflow"
    /\ UNCHANGED <<aabbs, encoding, enc_points, encoded, decoding, rows>>
    /\ UNCHANGED searchVars
    /\ UNCHANGED sideVars

\* DecodingBoard::decode(enc, tile_id) returns
DecodeCall(enc, tile_id) ==
    /\ bpc = "decoding"
    /\ bpc' = "decoding"
    /\ \E d \in {Decode(decoding, rows, enc, tile_id)} :
           /\ d.msg = ""
           /\ rows' = d.rows
    /\ UNCHANGED <<aabbs, encoding, enc_points, encoded, decoding, panic_msg>>
    /\ UNCHANGED searchVars
    /\ UNCHANGED sideVars

\* DecodingBoard::decode(enc, tile_id) panics, the lower bits being painted
DecodePanic(enc, tile_id) ==
    /\ bpc = "decoding"
    /\ bpc' = "panic"
    /\ \E d \in {Decode(decoding, rows, enc, tile_id)} :
           /\ d.msg # ""
           /\ rows' = d.rows
           /\ panic_msg' = d.msg
    /\ UNCHANGED <<aabbs, encoding, enc_points, encoded, decoding>>
    /\ UNCHANGED searchVars
    /\ UNCHANGED sideVars

DecodeAny == \E enc \in DecodeMasks : \E tile_id \in Labels :
                 DecodeCall(enc, tile_id)

DecodePanicAny == \E enc \in DecodeMasks : \E tile_id \in Labels :
                      DecodePanic(enc, tile_id)

NextBoard ==
    \/ NewBoard
    \/ NewBoardPanic
    \/ EncodeCall

SpecBoard == InitBoard /\ [][NextBoard]_vars

\* the boards given to the decoder include the extreme rows
InitDecode ==
    /\ SearchIdle
    /\ SideIdle
    /\ aabbs \in AABBLists \cup ExtremeLists
    /\ encoding = EmptyMap
    /\ enc_points = <<>>
    /\ encoded = None
    /\ decoding = EmptyMap
    /\ rows = <<>>
    /\ bpc = "new"
    /\ panic_msg = ""

NextDecode ==
    \/ NewBoard
    \/ NewBoardPanic
    \/ FromCall
    \/ FromPanic
    \/ DecodeAny
    \/ DecodePanicAny

SpecDecode == InitDecode /\ [][NextDecode]_vars

----------------------------------------------------------------------------
\* Tile (src/src/entity.rs:8-76)

\* `-v' on an i32 leaves the range for i32::MIN alone
NegOverflows(v) == v = I32Min

\* `-v' as a build without overflow checks computes it (one with overflow
\* checks panics where NegOverflows holds)
neg_i32(v) == IF NegOverflows(v) THEN I32Min ELSE -v

\* `a + b' on i32 leaves the range
AddOverflows(a, b) ==
    \/ b > 0 /\ a > I32Max - b
    \/ b < 0 /\ a < I32Min - b

\* `a + b' as a build without overflow checks computes it
add_i32(a, b) ==
    IF b > 0 /\ a > I32Max - b THEN ((a - I32Max) - 1 + b) + I32Min
    ELSE IF b < 0 /\ a < I32Min - b THEN ((a - I32Min) + b + 1) + I32Max
    ELSE a + b

\* the coordinates exchanged
RotatedTransposed(p) == Point(p.y, p.x)

\* a quarter turn about the point (1/2, 1/2)
RotatedAboutOne(p) ==
    Point(IF NegOverflows(p.y) THEN I32Min ELSE 1 - p.y, p.x)

\* Point::rotated_ccw_90, lines 52-57
rotated_ccw_90(p) == Point(neg_i32(p.y), p.x)

\* Point::reflected_over_vert, lines 59-64
reflected_over_vert(p) == Point(neg_i32(p.x), p.y)

\* impl Add for Point, lines 67-76
PointAdd(p, rhs) == Point(add_i32(p.x, rhs.x), add_i32(p.y, rhs.y))

\* Tile::new, line 16: some point is the origin
HasOrigin(pts) == \E k \in 1 .. Len(pts) : pts[k].x = 0 /\ pts[k].y = 0

\* Tile::rotate_ccw_90, lines 23-27
rotate_ccw_90(pts) == [k \in 1 .. Len(pts) |-> rotated_ccw_90(pts[k])]

\* Tile::reflect_over_vert, lines 29-33
reflect_over_vert(pts) == [k \in 1 .. Len(pts) |-> reflected_over_vert(pts[k])]

\* Tile::offset_points, lines 35-37, collected
offset_points(pts, offset) == [k \in 1 .. Len(pts) |-> PointAdd(pts[k], offset)]

\* the coordinates of the points given to Tile::new
TileCoords == {I32Min, -1, 0, 1, 2}

TilePoints == {Point(x, y) : x \in TileCoords, y \in TileCoords}

TileArgs == UNION {[1 .. n -> TilePoints] : n \in 0 .. MaxTilePts}

\* the offsets asked of offset_points
Offsets == {Point(0, 0), Point(1, 0), Point(-1, -1)}

InitTile ==
    /\ SearchIdle
    /\ BoardIdle
    /\ SortIdle
    /\ MainIdle
    /\ tile_arg \in TileArgs
    /\ points = <<>>
    /\ offsets = <<>>
    /\ outer = 0
    /\ inner = 0
    /\ visited = <<>>
    /\ tpc = "new"

\* Tile::new returns, lines 15-21
TileNew ==
    /\ tpc = "new"
    /\ HasOrigin(tile_arg)
    /\ points' = tile_arg
    /\ tpc' = "tile"
    /\ UNCHANGED <<tile_arg, offsets, outer, inner, visited>>
    /\ UNCHANGED <<searchVars, boardVars, sortVars, mainVars>>

\* Tile::new panics, lines 16-18
TileNewPanic ==
    /\ tpc = "new"
    /\ ~HasOrigin(tile_arg)
    /\ tpc' = "panic"
    /\ UNCHANGED <<tile_arg, points, offsets, outer, inner, visited>>
    /\ UNCHANGED <<searchVars, boardVars, sortVars, mainVars>>

\* tile.rotate_ccw_90()
RotateCall ==
    /\ tpc = "tile"
    /\ points' = rotate_ccw_90(points)
    /\ UNCHANGED <<tile_arg, offsets, outer, inner, visited, tpc>>
    /\ UNCHANGED <<searchVars, boardVars, sortVars, mainVars>>

\* tile.rotate_ccw_90() in a build with overflow checks, on a point whose y
\* is i32::MIN (the tile is lost with the panic)
RotatePanic ==
    /\ tpc = "tile"
    /\ \E k \in 1 .. Len(points) : NegOverflows(points[k].y)
    /\ tpc' = "panic"
    /\ UNCHANGED <<tile_arg, points, offsets, outer, inner, visited>>
    /\ UNCHANGED <<searchVars, boardVars, sortVars, mainVars>>

\* tile.reflect_over_vert()
ReflectCall ==
    /\ tpc = "tile"
    /\ points' = reflect_over_vert(points)
    /\ UNCHANGED <<tile_arg, offsets, outer, inner, visited, tpc>>
    /\ UNCHANGED <<searchVars, boardVars, sortVars, mainVars>>

\* tile.reflect_over_vert() in a build with overflow checks
ReflectPanic ==
    /\ tpc = "tile"
    /\ \E k \in 1 .. Len(points) : NegOverflows(points[k].x)
    /\ tpc' = "panic"
    /\ UNCHANGED <<tile_arg, points, offsets, outer, inner, visited>>
    /\ UNCHANGED <<searchVars, boardVars, sortVars, mainVars>>

\* tile.offset_points(offset), the iterator consumed
OffsetCall(offset) ==
    /\ tpc = "tile"
    /\ offsets' = offset_points(points, offset)
    /\ UNCHANGED <<tile_arg, points, outer, inner, visited, tpc>>
    /\ UNCHANGED <<searchVars, boardVars, sortVars, mainVars>>

\* tile.offset_points(offset) in a build with overflow checks
OffsetPanic(offset) ==
    /\ tpc = "tile"
    /\ \E k \in 1 .. Len(points) :
           \/ AddOverflows(points[k].x, offset.x)
           \/ AddOverflows(points[k].y, offset.y)
    /\ tpc' = "panic"
    /\ UNCHANGED <<tile_arg, points, offsets, outer, inner, visited>>
    /\ UNCHANGED <<searchVars, boardVars, sortVars, mainVars>>

OffsetAny == \E offset \in Offsets : OffsetCall(offset)

OffsetPanicAny == \E offset \in Offsets : OffsetPanic(offset)

NextTile ==
    \/ TileNew
    \/ TileNewPanic
    \/ RotateCall
    \/ RotatePanic
    \/ ReflectCall
    \/ ReflectPanic
    \/ OffsetAny
    \/ OffsetPanicAny

SpecTile == InitTile /\ [][NextTile]_vars

\* main, lines 103-120: the orientation loop over one tile. The candidate
\* set built at lines 108-112 reads the tile and leaves it as it is; visited
\* records the orientation each pass of the inner loop reads.

\* lines 103-107: the loops are entered
LoopEnter ==
    /\ tpc = "tile"
    /\ outer' = 0
    /\ inner' = 0
    /\ visited' = <<>>
    /\ tpc' = "use"
    /\ UNCHANGED <<tile_arg, points, offsets>>
    /\ UNCHANGED <<searchVars, boardVars, sortVars, mainVars>>

\* lines 108-112: the tile is read in its present orientation
LoopUse ==
    /\ tpc = "use"
    /\ visited' = Append(visited, points)
    /\ tpc' = "rotate"
    /\ UNCHANGED <<tile_arg, points, offsets, outer, inner>>
    /\ UNCHANGED <<searchVars, boardVars, sortVars, mainVars>>

\* line 114, and the inner loop's end after four passes
LoopRotate ==
    /\ tpc = "rotate"
    /\ points' = rotate_ccw_90(points)
    /\ inner' = inner + 1
    /\ tpc' = IF inner + 1 = 4 THEN "reflect" ELSE "use"
    /\ UNCHANGED <<tile_arg, offsets, outer, visited>>
    /\ UNCHANGED <<searchVars, boardVars, sortVars, mainVars>>

\* line 114 in a build with overflow checks
LoopRotatePanic ==
    /\ tpc = "rotate"
    /\ \E k \in 1 .. Len(points) : NegOverflows(points[k].y)
    /\ tpc' = "panic"
    /\ UNCHANGED <<tile_arg, points, offsets, outer, inner, visited>>
    /\ UNCHANGED <<searchVars, boardVars, sortVars, mainVars>>

\* line 117, and the outer loop's end after two passes
LoopReflect ==
    /\ tpc = "reflect"
    /\ points' = reflect_over_vert(points)
    /\ outer' = outer + 1
    /\ inner' = 0
    /\ tpc' = IF outer + 1 = 2 THEN "done" ELSE "use"
    /\ UNCHANGED <<tile_arg, offsets, visited>>
    /\ UNCHANGED <<searchVars, boardVars, sortVars, mainVars>>

\* (line 117 cannot panic: a build with overflow checks that reaches it has
\* made four rotations without a panic, so no coordinate is i32::MIN)

NextOrient ==
    \/ TileNew
    \/ TileNewPanic
    \/ LoopEnter
    \/ LoopUse
    \/ LoopRotate
    \/ LoopRotatePanic
    \/ LoopReflect

SpecOrient == InitTile /\ [][NextOrient]_vars

----------------------------------------------------------------------------
\* rev_i32_order as a state machine: two row numbers are given and keyed

\* the row numbers tried: around 0 and at both ends of the i32 range
I32Samples ==
    (-RevSpan .. RevSpan)
        \cup {I32Min + k : k \in 0 .. RevSpan}
        \cup {I32Max - k : k \in 0 .. RevSpan}

InitRev ==
    /\ SearchIdle
    /\ BoardIdle
    /\ TileIdle
    /\ MainIdle
    /\ rev_a \in I32Samples
    /\ rev_b \in I32Samples
    /\ key_a = 0
    /\ key_b = 0
    /\ rpc = "call"

\* lines 243-244: the two keys of one comparison are computed
RevCall ==
    /\ rpc = "call"
    /\ key_a' = rev_i32_order(rev_a)
    /\ key_b' = rev_i32_order(rev_b)
    /\ rpc' = "done"
    /\ UNCHANGED <<rev_a, rev_b>>
    /\ UNCHANGED <<searchVars, boardVars, tileVars, mainVars>>

\* line 237 in a build with overflow checks
RevPanic ==
    /\ rpc = "call"
    /\ RevOverflows(rev_a) \/ RevOverflows(rev_b)
    /\ rpc' = "panic"
    /\ UNCHANGED <<rev_a, rev_b, key_a, key_b>>
    /\ UNCHANGED <<searchVars, boardVars, tileVars, mainVars>>

NextRev == RevCall \/ RevPanic

SpecRev == InitRev /\ [][NextRev]_vars

----------------------------------------------------------------------------
\* main from the board to the printed solution (src/src/main.rs:48-52,
\* 126-168)

\* the boards: an L of three cells, a row of two cells, and a cell named
\* twice
MainBoards ==
    {<<AABB(Point(0, 0), Point(1, 0)), AABB(Point(0, -1), Point(0, -1))>>,
     <<AABB(Point(0, 0), Point(1, 0))>>,
     <<AABB(Point(0, 0), Point(0, 0)), AABB(Point(0, 0), Point(0, 0))>>}

\* lines 126-136: the cells of the month and of the day
MonthPoints == {Point(0, 0), Point(-1, 0)}

DayPoints == {Point(0, 0), Point(0, -1)}

\* the bits the board assigned
BoardMask(map) == UNION {map[p] : p \in DOMAIN map}

\* the results of encode on a tile's points: the non-zero masks of board bits
ConfigMasks(map) == SUBSET BoardMask(map) \ {{}}

\* lines 101-122: `configurations' laid end to end, pl holding the masks and
\* idx the boundaries of the tiles' sets; a HashSet holds a mask once
EachMaskOnce(pl, idx) ==
    \A k \in 1 .. Len(idx) - 1 :
        \A a, b \in idx[k] + 1 .. idx[k + 1] : a # b => pl[a] # pl[b]

\* line 148: the filter of the inner loop
Kept(enc, init) == enc \cap init = {}

\* lines 145-150: the masks pushed, in order
KeptMasks(pl, init) == SelectSeq(pl, LAMBDA enc : Kept(enc, init))

\* placements.len() once the first n masks have been seen
KeptBefore(pl, init, n) == Len(KeptMasks(SubSeq(pl, 1, n), init))

\* the one-based label
TileLabelOneBased(id) == Some((id + 1) % 256)

\* line 161: `id as u8' in Some(id)
TileLabel(id) == Some(id % 256)

InitMain ==
    /\ SearchIdle
    /\ TileIdle
    /\ SortIdle
    /\ aabbs \in MainBoards
    /\ encoding = EmptyMap
    /\ enc_points = <<>>
    /\ encoded = None
    /\ decoding = EmptyMap
    /\ rows = <<>>
    /\ bpc = "new"
    /\ panic_msg = ""
    /\ next_id = 0
    /\ mpc = "initial"

\* lines 138-140: initial_board is the encoding of the two cells
MainInitialBoard ==
    /\ mpc = "initial"
    /\ bpc = "encoding"
    /\ \E month_point \in MonthPoints : \E day_point \in DayPoints :
           /\ enc_points' = <<month_point, day_point>>
           /\ encoded' = Encode(encoding, <<month_point, day_point>>)
    /\ encoded'.tag = "Some"
    /\ initial_board' = encoded'.val
    /\ mpc' = "build"
    /\ UNCHANGED <<placements, placement_indices, selected_placements,
                   board_states, i, board, selected_placement, bound,
                   placement, pc, result>>
    /\ UNCHANGED <<aabbs, encoding, decoding, rows, bpc, panic_msg>>
    /\ UNCHANGED <<tileVars, sortVars, next_id>>

\* lines 138-140: a cell off the board, and expect panics
MainInitialPanic ==
    /\ mpc = "initial"
    /\ bpc = "encoding"
    /\ \E month_point \in MonthPoints : \E day_point \in DayPoints :
           /\ enc_points' = <<month_point, day_point>>
           /\ encoded' = Encode(encoding, <<month_point, day_point>>)
    /\ encoded'.tag = "None"
    /\ panic_msg' = "Month and day should lie within the board"
    /\ mpc' = "panic"
    /\ UNCHANGED searchVars
    /\ UNCHANGED <<aabbs, encoding, decoding, rows, bpc>>
    /\ UNCHANGED <<tileVars, sortVars, next_id>>

\* lines 142-155: placements and placement_indices are built and backtrack
\* is called
MainBuild ==
    /\ mpc = "build"
    /\ pc' = "start"
    /\ mpc' = "search"
    /\ \E n \in 0 .. MaxPlacements :
           \E idx \in IndexLists(n) \ {<<>>} :
               \E pl \in [1 .. n -> ConfigMasks(encoding)] :
                   /\ EachMaskOnce(pl, idx)
                   /\ placements' = KeptMasks(pl, initial_board)
                   /\ placement_indices' =
                          [k \in 1 .. Len(idx) |->
                              KeptBefore(pl, initial_board, idx[k])]
    /\ UNCHANGED <<initial_board, selected_placements, board_states, i,
                   board, selected_placement, bound, placement, result>>
    /\ UNCHANGED boardVars
    /\ UNCHANGED <<tileVars, sortVars, next_id>>

\* line 158: on Some, the grid is made from the board
MainFrom ==
    /\ mpc = "search"
    /\ pc = "some"
    /\ mpc' = "decode"
    /\ next_id' = 0
    /\ bpc' = "decoding"
    /\ \E d \in {DecodingBoardFrom(aabbs, encoding)} :
           /\ decoding' = d.decoding
           /\ rows' = d.rows
    /\ UNCHANGED <<aabbs, encoding, enc_points, encoded, panic_msg>>
    /\ UNCHANGED searchVars
    /\ UNCHANGED <<tileVars, sortVars>>

\* lines 159-162: the next entry of the solution is decoded with its
\* position as label
MainDecodePiece ==
    /\ mpc = "decode"
    /\ next_id < Len(result)
    /\ InBounds(placements, At0(result, next_id))
    /\ next_id' = next_id + 1
    /\ \E d \in {Decode(decoding, rows,
                        At0(placements, At0(result, next_id)),
                        TileLabel(next_id))} :
           /\ d.msg = ""
           /\ rows' = d.rows
    /\ UNCHANGED <<aabbs, encoding, enc_points, encoded, decoding, bpc,
                   panic_msg>>
    /\ UNCHANGED searchVars
    /\ UNCHANGED <<tileVars, sortVars, mpc>>

\* lines 163-164: initial_board is decoded without a label and the grid is
\* printed
MainDecodeInitial ==
    /\ mpc = "decode"
    /\ next_id = Len(result)
    /\ mpc' = "done"
    /\ \E d \in {Decode(decoding, rows, initial_board, None)} :
           /\ d.msg = ""
           /\ rows' = d.rows
    /\ UNCHANGED <<aabbs, encoding, enc_points, encoded, decoding, bpc,
                   panic_msg>>
    /\ UNCHANGED searchVars
    /\ UNCHANGED <<tileVars, sortVars, next_id>>

\* lines 166-168: on None, "No solution found :(" is printed
MainNoSolution ==
    /\ mpc = "search"
    /\ pc = "none"
    /\ mpc' = "done"
    /\ UNCHANGED searchVars
    /\ UNCHANGED boardVars
    /\ UNCHANGED <<tileVars, sortVars, next_id>>

\* placement_indices is never empty here (line 153), so line 6 of backtrack
\* cannot panic
NextMain ==
    \/ NewBoard
    \/ NewBoardPanic
    \/ MainInitialBoard
    \/ MainInitialPanic
    \/ MainBuild
    \/ Start
    \/ LoopHeadPanic
    \/ LoopHead
    \/ ScanPanic
    \/ ScanFound
    \/ ScanNext
    \/ ScanEnd
    \/ Exhausted
    \/ ReturnNone
    \/ WalkReset
    \/ WalkResume
    \/ Descend
    \/ ReturnSome
    \/ MainFrom
    \/ MainDecodePiece
    \/ MainDecodeInitial
    \/ MainNoSolution

SpecMain == InitMain /\ [][NextMain]_vars

----------------------------------------------------------------------------
\* Vocabulary of the properties of backtrack

PieceCount == Len(placement_indices) - 1

Pieces == 0 .. PieceCount - 1

StrictlyIncreasing(s) == \A k \in 1 .. Len(s) - 1 : s[k] < s[k + 1]

NonZeroMasks == \A n \in 1 .. Len(placements) : placements[n] # {}

WellFormedIndices ==
    /\ Len(placement_indices) >= 2
    /\ StrictlyIncreasing(placement_indices)

WellFormed == WellFormedIndices /\ NonZeroMasks

\* the words a and b have no bit in common
NoCommonBit(a, b) == (a \cap b) = {}

\* flat index idx lies in piece k's slice
InSlice(k, idx) ==
    /\ At0(placement_indices, k) <= idx
    /\ idx < At0(placement_indices, k + 1)

\* flat index of the candidate committed for piece k
Committed(k) == At0(selected_placements, k) - 1

CommittedMask(k) == At0(placements, Committed(k))

\* a choice of one flat index per piece
Choices == [Pieces -> 0 .. Len(placements) - 1]

IsSolution(f) ==
    /\ \A k \in Pieces : InSlice(k, f[k])
    /\ \A k \in Pieces : NoCommonBit(At0(placements, f[k]), initial_board)
    /\ \A k \in Pieces : \A j \in Pieces :
           k # j => NoCommonBit(At0(placements, f[k]), At0(placements, f[j]))

SolutionExists == \E f \in Choices : IsSolution(f)

Returned == pc \in {"some", "none"}

----------------------------------------------------------------------------
\* C1: soundness. On well-formed input with non-zero masks, when backtrack
\* returns Some the candidate committed for each piece k (flat index
\* selected_placements[k]-1) lies in piece k's slice, is disjoint from
\* initial_board and is disjoint from every other piece's committed candidate.
C1_Soundness ==
    (pc = "some" /\ WellFormed) =>
        /\ \A k \in Pieces : InSlice(k, Committed(k))
        /\ \A k \in Pieces : NoCommonBit(CommittedMask(k), initial_board)
        /\ \A k \in Pieces : \A j \in Pieces :
               k # j => NoCommonBit(CommittedMask(k), CommittedMask(j))

\* a success with two pieces, one of them with two candidates
C1_Witness ==
    /\ pc = "some"
    /\ WellFormed
    /\ PieceCount >= 2
    /\ Len(placements) > PieceCount

\* C2: completeness. On well-formed input with non-zero masks, backtrack
\* returns None only if no choice of one candidate per slice is pairwise
\* disjoint and disjoint from initial_board.
C2_Completeness ==
    (pc = "none" /\ WellFormed) => ~SolutionExists

\* None returned for two pieces after the first piece had a candidate that
\* fits the initial board
C2_Witness ==
    /\ pc = "none"
    /\ WellFormed
    /\ PieceCount >= 2
    /\ \E idx \in 0 .. Len(placements) - 1 :
           InSlice(0, idx) /\ NoCommonBit(At0(placements, idx), initial_board)

PiecePop(k) == Cardinality(At0(placements, At0(placement_indices, k)))

RECURSIVE SumPop(_)
SumPop(k) == IF k = 0 THEN 0 ELSE PiecePop(k - 1) + SumPop(k - 1)

CoveragePrecondition(brd) ==
    /\ WellFormedIndices
    /\ initial_board \subseteq brd
    /\ \A n \in 1 .. Len(placements) : placements[n] \subseteq brd
    /\ \A k \in Pieces : \A idx \in 0 .. Len(placements) - 1 :
           InSlice(k, idx) => Cardinality(At0(placements, idx)) = PiecePop(k)
    /\ Cardinality(initial_board) + SumPop(PieceCount) = Cardinality(brd)

ChosenUnion == initial_board \cup UNION {CommittedMask(k) : k \in Pieces}

\* C4: if every candidate is a subset of the board mask, the candidates of
\* one piece have one population count and popcount(initial_board) plus the
\* pieces' population counts equals the number of board cells, then on
\* success the OR of initial_board and the chosen masks is the board mask.
C4_FullCoverage ==
    \A brd \in Masks :
        (pc = "some" /\ CoveragePrecondition(brd)) => ChosenUnion = brd

\* a success under the precondition with two pieces
C4_Witness ==
    /\ pc = "some"
    /\ PieceCount >= 2
    /\ \E brd \in Masks : CoveragePrecondition(brd) /\ brd # {}

\* C5: termination. On well-formed input with non-zero masks the search
\* eventually returns Some or None.
C5_Termination == WellFormed => <>Returned

\* a return reached after piece 0's first candidate was given up
C5_Witness ==
    /\ Returned
    /\ WellFormed
    /\ PieceCount >= 2
    /\ pc = "some"
    /\ Committed(0) > At0(placement_indices, 0)

Malformed ==
    \/ Len(placement_indices) < 2
    \/ ~StrictlyIncreasing(placement_indices)

\* C6 as stated: with an empty slice or fewer than 2 boundary entries
\* backtrack never returns a result, neither Some nor None (here for the
\* inputs whose masks are all non-zero).
C6_MalformedIsFatal == (Malformed /\ NonZeroMasks) => ~Returned

----------------------------------------------------------------------------
\* Vocabulary of the properties of the boards

NewSucceeded == bpc \in {"encoding", "encoded", "decoding"}

Area(aabb) ==
    (aabb.max.x - aabb.min.x + 1) * (aabb.max.y - aabb.min.y + 1)

RECURSIVE TotalCells(_)
TotalCells(list) ==
    IF list = <<>> THEN 0 ELSE Area(Head(list)) + TotalCells(Tail(list))

Inside(p, aabb) ==
    /\ aabb.min.x <= p.x /\ p.x <= aabb.max.x
    /\ aabb.min.y <= p.y /\ p.y <= aabb.max.y

OnBoard(p) == \E k \in 1 .. Len(aabbs) : Inside(p, aabbs[k])

Intersect(a, b) ==
    /\ a.min.x <= b.max.x /\ b.min.x <= a.max.x
    /\ a.min.y <= b.max.y /\ b.min.y <= a.max.y

SomeOverlap ==
    \E j \in 1 .. Len(aabbs) : \E k \in 1 .. Len(aabbs) :
        j < k /\ Intersect(aabbs[j], aabbs[k])

\* C7: bijective dense encoding. After EncodingBoard::new succeeds on AABBs
\* with N points in all, the i-th point in iteration order has the mask 2^i
\* (the word whose one set bit is i), i = 0..N-1: N distinct masks, each one
\* bit, and the bits used are exactly 0..N-1.
C7_DenseEncoding ==
    NewSucceeded =>
        LET pts == BoardPoints(aabbs)
            masks == {encoding[p] : p \in DOMAIN encoding}
        IN  /\ Len(pts) = TotalCells(aabbs)
            /\ DOMAIN encoding = {pts[n] : n \in 1 .. Len(pts)}
            /\ \A n \in 1 .. Len(pts) : encoding[pts[n]] = {n - 1}
            /\ Cardinality(masks) = Len(pts)
            /\ \A m \in masks : Cardinality(m) = 1
            /\ UNION masks = 0 .. Len(pts) - 1

\* a board of two rectangles, the second of more than one cell
C7_Witness ==
    /\ bpc = "encoding"
    /\ Len(aabbs) = 2
    /\ Area(aabbs[1]) >= 2
    /\ Area(aabbs[2]) >= 2

\* C8: encode returns the OR of the points' masks exactly when the sequence
\* is non-empty and every point is on the board, and absence otherwise.
C8_Encode ==
    bpc = "encoded" =>
        encoded =
            IF /\ Len(enc_points) > 0
               /\ \A n \in 1 .. Len(enc_points) : OnBoard(enc_points[n])
            THEN Some(UNION {encoding[enc_points[n]] :
                                n \in 1 .. Len(enc_points)})
            ELSE None

\* absence for three points of which only the middle one is off the board
C8_Witness ==
    /\ bpc = "encoded"
    /\ Len(enc_points) = 3
    /\ OnBoard(enc_points[1])
    /\ ~OnBoard(enc_points[2])
    /\ OnBoard(enc_points[3])
    /\ enc_points[1] # enc_points[3]
    /\ encoded = None

\* C9: EncodingBoard::new panics exactly when the AABBs hold more than 64
\* points in all or two of them share a point; 64 distinct cells are
\* accepted and the 64th gets bit 63.
C9_NewFatalExactly ==
    bpc # "new" =>
        /\ (bpc = "panic") <=> (TotalCells(aabbs) > WordBits \/ SomeOverlap)
        /\ (NewSucceeded /\ TotalCells(aabbs) = WordBits) =>
               encoding[BoardPoints(aabbs)[WordBits]] = {WordBits - 1}

\* a board of exactly 64 cells was accepted
C9_Witness ==
    /\ bpc = "encoding"
    /\ Cardinality(DOMAIN encoding) = WordBits

\* what C10 says of one call decode(enc, tile_id)
DecodeEffect(enc, tile_id) ==
    IF \A b \in enc : {b} \in DOMAIN decoding
    THEN /\ bpc' = "decoding"
         /\ Len(rows') = Len(rows)
         /\ \A r \in 1 .. Len(rows) :
                /\ Len(rows'[r]) = Len(rows[r])
                /\ \A c \in 1 .. Len(rows[r]) :
                       rows'[r][c] =
                           IF \E b \in enc : decoding[{b}] = <<r - 1, c - 1>>
                           THEN IF tile_id = None THEN Uncovered
                                ELSE Covered(tile_id.val)
                           ELSE rows[r][c]
    ELSE bpc' = "panic"

\* C10: decode(mask, label) sets exactly the cells whose bits are set in
\* mask to Covered(label) when a label is given and to Uncovered otherwise,
\* leaves every other cell as it was, and panics when mask has a bit the
\* board never assigned.
C10_DecodeFrame ==
    [][\A enc \in DecodeMasks : \A tile_id \in Labels :
          (DecodeCall(enc, tile_id) \/ DecodePanic(enc, tile_id)) =>
              DecodeEffect(enc, tile_id)]_vars

\* a grid with a cell covered by piece 1, an uncovered cell and a cell as
\* yet unknown
C10_Witness ==
    /\ bpc = "decoding"
    /\ \E r1 \in 1 .. Len(rows) : \E c1 \in 1 .. Len(rows[r1]) :
           rows[r1][c1] = Covered(1)
    /\ \E r2 \in 1 .. Len(rows) : \E c2 \in 1 .. Len(rows[r2]) :
           rows[r2][c2] = Uncovered
    /\ \E r3 \in 1 .. Len(rows) : \E c3 \in 1 .. Len(rows[r3]) :
           rows[r3][c3] = Unknown

----------------------------------------------------------------------------
\* the masks committed for the pieces below level n, OR-ed onto initial_board
BoardBelow(n) ==
    initial_board \cup UNION {CommittedMask(k) : k \in 0 .. n - 1}

\* the search is about to scan, or is scanning, the candidates of level i
Scanning == pc \in {"loop", "scan"}

\* C15: exact restoration on backtrack. Whenever the search begins scanning
\* at level i, board is initial_board OR-ed with exactly the masks committed
\* for pieces 0..i-1, and board_states[j], j < i, is initial_board OR-ed with
\* the masks committed for pieces 0..j-1.
C15_ExactRestoration ==
    Scanning =>
        /\ board = BoardBelow(i)
        /\ \A j \in 0 .. i - 1 : At0(board_states, j) = BoardBelow(j)

\* with three pieces, level 1 is scanned on piece 0's second candidate after
\* its first one was committed and abandoned, the first having a bit that is
\* not in board
C15_Witness ==
    /\ pc = "scan"
    /\ WellFormed
    /\ PieceCount = 3
    /\ i = 1
    /\ At0(placement_indices, 1) >= 2
    /\ Committed(0) = 1
    /\ NoCommonBit(At0(placements, 0), initial_board)
    /\ At0(placements, 0) \ board # {}

\* the indices of level i's scan range whose candidate is disjoint from board
Fits ==
    {idx \in At0(selected_placements, i) .. At0(placement_indices, i + 1) - 1 :
        NoCommonBit(At0(placements, idx), board)}

Min(S) == CHOOSE m \in S : \A n \in S : m <= n

\* C16 as stated: for every candidate value, the search commits the first
\* candidate from selected_placements[i] to the end of piece i's slice whose
\* AND with board is 0, sets selected_placements[i] to one past it, and
\* declares level i exhausted only when no candidate of that range has AND 0.
C16_ForwardStep ==
    [][WellFormedIndices =>
          /\ Exhausted => Fits = {}
          /\ (Descend \/ ReturnSome) =>
                 /\ Fits # {}
                 /\ selected_placement = Min(Fits)
                 /\ At0(selected_placements', i) = Min(Fits) + 1]_vars

\* C18: resume-pointer invariant. On well-formed input, whenever the search
\* begins scanning at level i the pointer of level i is inside piece i's
\* slice and every deeper pointer is reset to its slice start; the scan bound
\* is the slice end and every read placements[idx] is inside the slice and
\* inside the array.
C18_ResumePointer ==
    (Scanning /\ WellFormedIndices) =>
        /\ i \in Pieces
        /\ InSlice(i, At0(selected_placements, i))
        /\ \A j \in i + 1 .. PieceCount :
               At0(selected_placements, j) = At0(placement_indices, j)
        /\ pc = "scan" =>
               /\ bound = At0(placement_indices, i + 1)
               /\ InSlice(i, selected_placement)
               /\ InBounds(placements, selected_placement)

\* with three pieces, level 0 is scanned again from a pointer past its slice
\* start; level 1 has two candidates, the first of which fitted beside piece
\* 0's first candidate, so that level 1's pointer had been advanced
C18_Witness ==
    /\ pc = "scan"
    /\ WellFormed
    /\ PieceCount = 3
    /\ i = 0
    /\ selected_placement = 1
    /\ At0(selected_placements, 0) = 1
    /\ At0(placement_indices, 1) = 2
    /\ NoCommonBit(At0(placements, 0), initial_board)
    /\ NoCommonBit(At0(placements, 2), initial_board \cup At0(placements, 0))

\* f comes before g, or is g, in the lexicographic order, piece 0 first
LexLeq(f, g) ==
    \/ f = g
    \/ \E k \in Pieces :
           /\ f[k] < g[k]
           /\ \A j \in 0 .. k - 1 : f[j] = g[j]

\* C19: first-found is lexicographically first. On well-formed input with
\* non-zero masks, when backtrack succeeds the committed tuple is a solution
\* and is the lexicographically smallest of all solutions; the result is
\* that tuple, a function of the arguments alone.
C19_LexFirst ==
    (pc = "some" /\ WellFormed) =>
        LET f == [k \in Pieces |-> Committed(k)]
        IN  /\ f \in Choices
            /\ IsSolution(f)
            /\ \A g \in Choices : IsSolution(g) => LexLeq(f, g)
            /\ result = [k \in 1 .. PieceCount |-> f[k - 1]]

\* a success with two pieces on an input that has two solutions or more
C19_Witness ==
    /\ pc = "some"
    /\ WellFormed
    /\ PieceCount >= 2
    /\ Cardinality({g \in Choices : IsSolution(g)}) >= 2

----------------------------------------------------------------------------
\* the cells of the rectangles listed before the k-th one
RECURSIVE CellsBefore(_)
CellsBefore(k) ==
    IF k <= 1 THEN 0 ELSE CellsBefore(k - 1) + Area(aabbs[k - 1])

\* the integer points of a rectangle
PointsInside(aabb) ==
    {Point(x, y) : x \in aabb.min.x .. aabb.max.x,
                   y \in aabb.min.y .. aabb.max.y}

\* the n-th point (n from 0) of a rectangle in row-major order: the lowest y
\* first, x ascending within a row
RowMajorPoint(aabb, n) ==
    LET w == aabb.max.x - aabb.min.x + 1
    IN  Point(aabb.min.x + (n % w), aabb.min.y + (n \div w))

\* C17 as stated: AABB::points yields every integer point of the rectangle
\* exactly once, in row-major order with x varying fastest, and that is the
\* order within a rectangle in which EncodingBoard::new assigns consecutive
\* bits.
C17_RowMajor ==
    NewSucceeded =>
        \A k \in 1 .. Len(aabbs) :
            LET pts == AABBPoints(aabbs[k])
            IN  /\ Len(pts) = Area(aabbs[k])
                /\ {pts[n] : n \in 1 .. Len(pts)} = PointsInside(aabbs[k])
                /\ \A n \in 1 .. Len(pts) :
                       /\ pts[n] = RowMajorPoint(aabbs[k], n - 1)
                       /\ encoding[RowMajorPoint(aabbs[k], n - 1)] =
                              {CellsBefore(k) + n - 1}

\* the points of the board
BoardPointSet == DOMAIN encoding

\* the rank of p.y among the board's distinct y values, descending
RowOf(p) == Cardinality({q.y : q \in {r \in BoardPointSet : r.y > p.y}})

\* the rank of p.x among the board points of p's row, ascending
ColOf(p) ==
    Cardinality({q \in BoardPointSet : q.y = p.y /\ q.x < p.x})

\* what C11 says of the decoding map dec and the grid rs built by from
FromEffect(dec, rs) ==
    /\ DOMAIN dec = {encoding[p] : p \in BoardPointSet}
    /\ \A p \in BoardPointSet :
           /\ dec[encoding[p]] = <<RowOf(p), ColOf(p)>>
           /\ RowOf(p) < Len(rs)
           /\ ColOf(p) < Len(rs[RowOf(p) + 1])
    /\ \A p \in BoardPointSet : \A q \in BoardPointSet :
           p # q => dec[encoding[p]] # dec[encoding[q]]
    /\ \A r \in 1 .. Len(rs) : \A c \in 1 .. Len(rs[r]) : rs[r][c] = Unknown

\* C11 as stated: DecodingBoard::from maps the bit of every board point P to
\* the cell (row, col), row the rank of P.y among the board's distinct y
\* values in descending order, col the rank of P.x among the points of that
\* y in ascending order; every cell starts Unknown, every bit has one cell
\* and distinct points get distinct cells.
C11_BoardToGrid == [][FromCall => FromEffect(decoding', rows')]_vars

\* C20 as stated: rev_i32_order is strictly order-reversing on all 32-bit
\* signed values, without overflow: for a < b the key of a is greater than
\* the key of b, so two distinct row numbers never have equal keys.
C20_StrictlyReversing ==
    /\ rpc # "panic"
    /\ (rpc = "done" /\ rev_a < rev_b) => key_a > key_b

----------------------------------------------------------------------------
\* the opposite of a coordinate, as a word of 32 bits
Opposite(v) == IF v = I32Min THEN I32Min ELSE 0 - v

\* the n-th orientation (n = 1..8) the loop `twice: (four times: use,
\* rotate), reflect' reads a point in: four quarter turns of the point, then
\* four quarter turns of its mirror image
Orientation(n, p) ==
    CASE n = 1 -> Point(p.x, p.y)
      [] n = 2 -> Point(Opposite(p.y), p.x)
      [] n = 3 -> Point(Opposite(p.x), Opposite(p.y))
      [] n = 4 -> Point(p.y, Opposite(p.x))
      [] n = 5 -> Point(Opposite(p.x), p.y)
      [] n = 6 -> Point(Opposite(p.y), Opposite(p.x))
      [] n = 7 -> Point(p.x, Opposite(p.y))
      [] n = 8 -> Point(p.y, p.x)

TileBuilt == tpc \in {"tile", "use", "rotate", "reflect", "done"}

\* C12: tile symmetry algebra. Four applications of rotate_ccw_90 return
\* every point, in its position of the list, to its coordinates, and two of
\* reflect_over_vert are the identity; the loop `twice: (four times: use,
\* rotate), reflect' reads the tile in all 8 orientations and leaves it in
\* its original orientation.
C12_Symmetry ==
    TileBuilt =>
        /\ rotate_ccw_90(rotate_ccw_90(rotate_ccw_90(rotate_ccw_90(points))))
               = points
        /\ reflect_over_vert(reflect_over_vert(points)) = points
        /\ (tpc = "reflect" /\ outer = 0) => points = tile_arg
        /\ tpc = "done" =>
               /\ points = tile_arg
               /\ Len(visited) = 8
               /\ \A n \in 1 .. 8 :
                      visited[n] = [k \in 1 .. Len(tile_arg) |->
                                       Orientation(n, tile_arg[k])]

\* the loop has ended on a tile whose 8 orientations differ from one another
C12_Witness ==
    /\ tpc = "done"
    /\ Cardinality({visited[n] : n \in 1 .. Len(visited)}) = 8

\* C13: tile anchor invariant. Tile::new is fatal when no given point is
\* (0,0); every tile reached from a successful Tile::new by rotate_ccw_90
\* and reflect_over_vert calls contains a point equal to (0,0); offset_points
\* never changes the tile's points.
C13_Anchor ==
    [][/\ TileNewPanic <=> (tpc = "new" /\ tpc' # "new" /\ ~HasOrigin(tile_arg))
       /\ tpc' = "tile" => HasOrigin(points')
       /\ (OffsetAny \/ OffsetPanicAny) => points' = points]_vars

\* a tile of two points, turned away from the orientation it was built in,
\* after a call of offset_points
C13_Witness ==
    /\ tpc = "tile"
    /\ Len(points) = 2
    /\ points # tile_arg
    /\ offsets # <<>>
    /\ offsets # points

----------------------------------------------------------------------------
\* Vocabulary of the properties of main

\* the grid cell of board bit b
GridCell(b) == rows[decoding[{b}][1] + 1][decoding[{b}][2] + 1]

\* main has printed a solution
SolutionPrinted == mpc = "done" /\ pc = "some"

\* C14: end-to-end decoding of a solution. When the search has succeeded
\* under the coverage precondition (taken for the mask of all board bits)
\* and main has decoded each piece's selected mask with the piece's number
\* as label and then initial_board with no label, every cell of piece k's
\* selected mask is Covered(k), every cell of initial_board is Uncovered and
\* no cell of the grid is Unknown.
C14_EndToEnd ==
    (SolutionPrinted /\ CoveragePrecondition(BoardMask(encoding))) =>
        /\ \A k \in Pieces : \A b \in CommittedMask(k) :
               GridCell(b) = Covered(k)
        /\ \A b \in initial_board : GridCell(b) = Uncovered
        /\ \A r \in 1 .. Len(rows) : \A c \in 1 .. Len(rows[r]) :
               rows[r][c] # Unknown

\* a printed solution of two pieces under the precondition, on a grid of
\* two rows
C14_Witness ==
    /\ SolutionPrinted
    /\ CoveragePrecondition(BoardMask(encoding))
    /\ PieceCount = 2
    /\ Len(rows) = 2
    /\ next_id = 2

====
